---- MODULE Spec2Model ----
(***************************************************************************)
(* Model of the SRAM access layer of butano as used by the pong game:      *)
(*   bn::hw::sram::init      (src/butano/hw/src/bn_hw_sram.cpp)            *)
(*   bn::sram::read/read_offset/write/write_offset/clear/set_bytes/size    *)
(*                           (src/butano/include/bn_sram.h)                *)
(*   main                    (src/games/pong/src/main.cpp)                 *)
(***************************************************************************)
EXTENDS Integers, Sequences, FiniteSets, TLC

(***************************************************************************)
(* Bounds of the model.                                                    *)
(***************************************************************************)
\* accessor calls made after bn::core::init() in one run
MaxCalls == 2
\* byte seeds the written values and fill bytes are drawn from: 0..MaxSeed
MaxSeed == 1
\* lengths passed to clear / set_bytes: 0..MaxLen
MaxLen == 4
\* calls of bn::hw::sram::init() in one run of the configurator
MaxInits == 2
\* prior contents of the wait-control register: 0..MaxPrior
MaxPrior == 63
\* iterations of the game loop in one run of the game
MaxFrames == 54
\* iterations of the game loop in one run of the paddles alone
MaxPaddleFrames == 200
\* iterations the player lets the ball rest before pressing A
MaxIdle == 1
\* results of random.get_int(): 0..MaxRandom
MaxRandom == 4

(***************************************************************************)
(* Program constants.                                                      *)
(***************************************************************************)
\* `int offset`: a 32-bit signed int
INT_MAX == 2147483647
INT_MIN == -INT_MAX - 1
\* uint8_t
BYTE_MOD == 256
\* hw::sram::size(): the device size in bytes
hw_sram_size == 32768
\* width in bits of the REG_WAITCNT register
REG_BITS == 16
\* wait-state encodings of the SRAM field (bits 0-1 of REG_WAITCNT)
BN_SRAM_WAIT_STATE_4 == 0
BN_SRAM_WAIT_STATE_3 == 1
BN_SRAM_WAIT_STATE_2 == 2
BN_SRAM_WAIT_STATE_8 == 3
\* the values the static_assert lets BN_CFG_SRAM_WAIT_STATE take
LegalWaitStates ==
    {BN_SRAM_WAIT_STATE_4, BN_SRAM_WAIT_STATE_3, BN_SRAM_WAIT_STATE_2, BN_SRAM_WAIT_STATE_8}
\* save_type[]
save_type == "SRAM_V113"

\* the size counted in kilobytes
size_in_kb == hw_sram_size \div 1024
\* bn::sram::size()
size == hw_sram_size

\* the game: how far a paddle goes, where the paddles and the walls are,
\* how far from its centre a paddle reaches, random.get_int() % 5 - 2
PADDLE_MAX == 48
PADDLE_LINE == 100
WALL == 64
PADDLE_REACH == 32
RANDOM_MOD == 5
RANDOM_SHIFT == 2

(***************************************************************************)
(* Inputs.                                                                 *)
(***************************************************************************)
\* sizeof(Type) of the types read and written: uint8_t and uint32_t
TypeSizes == {1, 4}
\* a value of a type of n bytes, as its bytes in memory order
ValueOf(seed, n) == [i \in 1..n |-> (seed + 37 * (i - 1)) % BYTE_MOD]
Values(n) == {ValueOf(s, n) : s \in 0..MaxSeed}
\* offsets passed by callers: below, at and inside the device, at its end,
\* and at both ends of the int range
Offsets ==
    {INT_MIN, -1, 0, 5000, 5004, size - 4, size - 3, size - 1, size,
     INT_MAX - 4, INT_MAX - 3, INT_MAX}
FillOffsets == {-1, 0, 5003, size - MaxLen, size - 1, size}
Lengths == 0..MaxLen

(***************************************************************************)
(* State.                                                                  *)
(***************************************************************************)
VARIABLES
    pc,           \* main: "boot" before bn::core::init(), "running", "halted"
    cfg,          \* BN_CFG_SRAM_WAIT_STATE of the build
    REG_WAITCNT,  \* the wait-control register
    reg_trace,    \* per init(): the register as it wrote it, and what it returned
    token,        \* what the last init() returned ("" before)
    sram,         \* device bytes written so far: address -> byte
    out,          \* destination of the last read
    raw,          \* the unsafe_read / unsafe_write call of the last accessor
    last,         \* the last accessor call and its arguments
    prev,         \* the accessor call before it
    calls,        \* number of accessor calls made
    size_ret,     \* what the last size() returned (-1 before)
    left_y,       \* left_paddle.y()
    right_y,      \* right_paddle.y()
    enemy_going_up,
    ball_x,       \* ball.x()
    ball_y,       \* ball.y()
    delta_x,
    delta_y,
    score,
    frames,       \* iterations of the game loop made
    idle          \* iterations since the ball came to rest

regvars == <<cfg, REG_WAITCNT, reg_trace, token>>
memvars == <<sram, out, raw, last, prev, calls, size_ret>>
gamevars == <<left_y, right_y, enemy_going_up, ball_x, ball_y, delta_x, delta_y,
              score, frames, idle>>
vars == <<pc, regvars, memvars, gamevars>>

NoCall == [op |-> "none", bytes |-> 0, offset |-> 0, value |-> <<>>]
NoRaw == [kind |-> "none", bytes |-> 0, offset |-> 0]
EmptyMem == [a \in {} |-> 0]

(***************************************************************************)
(* Helpers.                                                                *)
(***************************************************************************)
\* content of a device byte never written: whatever the battery bank held
Blank(a) == (a * 7 + 3) % BYTE_MOD
Peek(mem, a) == IF a \in DOMAIN mem THEN mem[a] ELSE Blank(a)
InDevice(n, offset) == offset >= 0 /\ offset <= size - n /\ n >= 0

\* y | flag on REG_BITS bits
RECURSIVE BitOr(_, _, _)
BitOr(a, b, bits) ==
    IF bits = 0 THEN 0
    ELSE (IF a % 2 = 1 \/ b % 2 = 1 THEN 1 ELSE 0) + 2 * BitOr(a \div 2, b \div 2, bits - 1)
RECURSIVE BitXor(_, _, _)
BitXor(a, b, bits) ==
    IF bits = 0 THEN 0
    ELSE (IF a % 2 # b % 2 THEN 1 ELSE 0) + 2 * BitXor(a \div 2, b \div 2, bits - 1)

\* BIT_SET(y, flag): y |= flag
BIT_FLIP(y, flag) == BitXor(y, flag, REG_BITS)
BIT_SET(y, flag) == BitOr(y, flag, REG_BITS)
\* the SRAM wait-state field of the register
WaitField(r) == r % 4

\* a + b in 32-bit two's complement, for a >= 0
WrapAdd(a, b) == IF b > INT_MAX - a THEN INT_MIN + (a - (INT_MAX - b) - 1) ELSE a + b

(***************************************************************************)
(* The raw primitives _bn::sram::unsafe_read / unsafe_write: they copy     *)
(* the bytes without any check.  A byte of the range that lies outside     *)
(* the device is not a device byte: a read of it yields whatever is on the *)
(* bus (junk), a write of it leaves the device as it is.                   *)
(***************************************************************************)
unsafe_read(mem, n, offset, junk) ==
    IF offset > INT_MAX - n THEN [i \in 1..n |-> junk]
    ELSE [i \in 1..n |->
            IF InDevice(1, offset + i - 1) THEN Peek(mem, offset + i - 1) ELSE junk]

unsafe_write(mem, source, n, offset) ==
    IF offset > INT_MAX - n THEN mem
    ELSE LET hit == {a \in offset..(offset + n - 1) : InDevice(1, a)}
         IN  [a \in DOMAIN mem \cup hit |->
                IF a \in hit THEN source[a - offset + 1] ELSE mem[a]]

\* hw fill of n bytes with one value
fill_bytes(mem, value, n, offset) ==
    [a \in DOMAIN mem \cup (offset..(offset + n - 1)) |->
        IF a >= offset /\ a <= offset + n - 1 THEN value ELSE mem[a]]

(***************************************************************************)
(* The two BN_ASSERTs of read_offset / write_offset: the set of results    *)
(* the check can have.  int(sizeof(Type)) + offset is a signed int sum:    *)
(* when it exceeds INT_MAX the behaviour is undefined, and the build       *)
(* either wraps (the sum is negative, the check passes) or compares        *)
(* without overflow (the check fails).                                     *)
(***************************************************************************)
Asserts(n, offset) ==
    IF ~(offset >= 0) THEN {FALSE}
    ELSE IF offset > INT_MAX - n THEN {WrapAdd(n, offset) <= size, FALSE}
    ELSE {n + offset <= size}

\* bookkeeping of a call: what was called, with what
Called(op, n, offset, value) ==
    /\ last' = [op |-> op, bytes |-> n, offset |-> offset, value |-> value]
    /\ prev' = last
    /\ calls' = calls + 1

\* a failed BN_ASSERT: execution halts, nothing else happens
Halt ==
    /\ pc' = "halted"
    /\ raw' = NoRaw
    /\ UNCHANGED <<sram, out>>

(***************************************************************************)
(* bn::sram::read, read_offset, write, write_offset for sizeof(Type) = n:  *)
(* what the function does to the destination, the device and the program.  *)
(* ok is the result of its BN_ASSERTs, junk the byte a read outside the    *)
(* device yields.                                                          *)
(***************************************************************************)
read_swapped(n, junk) ==
    /\ raw' = [kind |-> "unsafe_read", bytes |-> 0, offset |-> n]
    /\ out' = unsafe_read(sram, 0, n, junk)
    /\ UNCHANGED <<sram, pc>>

read_body(n, junk) ==
    /\ raw' = [kind |-> "unsafe_read", bytes |-> n, offset |-> 0]
    /\ out' = unsafe_read(sram, n, 0, junk)
    /\ UNCHANGED <<sram, pc>>

read_offset_wrong(n, offset, ok, junk) ==
    IF ok
    THEN /\ raw' = [kind |-> "unsafe_read", bytes |-> n, offset |-> 0]
         /\ out' = unsafe_read(sram, n, 0, junk)
         /\ UNCHANGED <<sram, pc>>
    ELSE Halt

read_offset_body(n, offset, ok, junk) ==
    IF ok
    THEN /\ raw' = [kind |-> "unsafe_read", bytes |-> n, offset |-> offset]
         /\ out' = unsafe_read(sram, n, offset, junk)
         /\ UNCHANGED <<sram, pc>>
    ELSE Halt

write_body(n, source) ==
    /\ raw' = [kind |-> "unsafe_write", bytes |-> n, offset |-> 0]
    /\ sram' = unsafe_write(sram, source, n, 0)
    /\ UNCHANGED <<out, pc>>

write_offset_wrong(n, source, offset, ok) ==
    IF ok
    THEN /\ raw' = [kind |-> "unsafe_write", bytes |-> n, offset |-> 0]
         /\ sram' = unsafe_write(sram, source, n, 0)
         /\ UNCHANGED <<out, pc>>
    ELSE Halt

write_offset_body(n, source, offset, ok) ==
    IF ok
    THEN /\ raw' = [kind |-> "unsafe_write", bytes |-> n, offset |-> offset]
         /\ sram' = unsafe_write(sram, source, n, offset)
         /\ UNCHANGED <<out, pc>>
    ELSE Halt

(***************************************************************************)
(* bn::sram::set_bytes and clear: the bound check of the typed accessors   *)
(* with the length in place of sizeof(Type), then the fill.                *)
(***************************************************************************)
set_bytes_body(value, n, offset) ==
    IF offset >= 0 /\ offset <= size - n
    THEN /\ raw' = [kind |-> "fill", bytes |-> n, offset |-> offset]
         /\ sram' = fill_bytes(sram, value, n, offset)
         /\ UNCHANGED <<out, pc>>
    ELSE Halt

clear_body(n, offset) == set_bytes_body(0, n, offset)

(***************************************************************************)
(* bn::hw::sram::init: one read-modify-write of the register, and the      *)
(* save type string returned.                                              *)
(***************************************************************************)
init ==
    /\ REG_WAITCNT' = BIT_SET(REG_WAITCNT, cfg)
    /\ reg_trace' = Append(reg_trace, [reg |-> REG_WAITCNT', ret |-> save_type])
    /\ token' = save_type
    /\ cfg' = cfg

\* bn::core::init() sets the hardware up, the SRAM bus among it
bn_core_init == init

(***************************************************************************)
(* main: bn::core::init() first; the application's SRAM calls all come     *)
(* after it.                                                               *)
(***************************************************************************)
main_without_init ==
    /\ pc = "boot"
    /\ pc' = "running"
    /\ UNCHANGED regvars
    /\ UNCHANGED memvars
    /\ UNCHANGED gamevars

main_init ==
    /\ pc = "boot"
    /\ bn_core_init
    /\ pc' = "running"
    /\ UNCHANGED memvars
    /\ UNCHANGED gamevars

CanCall == pc = "running" /\ calls < MaxCalls

read ==
    /\ CanCall
    /\ \E n \in TypeSizes :
         /\ read_body(n, 0)
         /\ Called("read", n, 0, <<>>)
    /\ UNCHANGED <<regvars, size_ret, gamevars>>

read_offset ==
    /\ CanCall
    /\ \E n \in TypeSizes, offset \in Offsets :
         \E ok \in Asserts(n, offset), junk \in 0..MaxSeed :
            /\ (InDevice(n, offset) => junk = 0)
            /\ read_offset_body(n, offset, ok, junk)
            /\ Called("read_offset", n, offset, <<>>)
    /\ UNCHANGED <<regvars, size_ret, gamevars>>

write ==
    /\ CanCall
    /\ \E n \in TypeSizes :
         \E source \in Values(n) :
            /\ write_body(n, source)
            /\ Called("write", n, 0, source)
    /\ UNCHANGED <<regvars, size_ret, gamevars>>

write_offset_retimes ==
    /\ CanCall
    /\ \E n \in TypeSizes, offset \in Offsets :
         \E source \in Values(n), ok \in Asserts(n, offset) :
            /\ write_offset_body(n, source, offset, ok)
            /\ Called("write_offset", n, offset, source)
    /\ REG_WAITCNT' = 0
    /\ UNCHANGED <<cfg, reg_trace, token, size_ret, gamevars>>

write_offset ==
    /\ CanCall
    /\ \E n \in TypeSizes, offset \in Offsets :
         \E source \in Values(n), ok \in Asserts(n, offset) :
            /\ write_offset_body(n, source, offset, ok)
            /\ Called("write_offset", n, offset, source)
    /\ UNCHANGED <<regvars, size_ret, gamevars>>

set_bytes ==
    /\ CanCall
    /\ \E value \in 0..MaxSeed, n \in Lengths, offset \in FillOffsets :
         /\ set_bytes_body(value, n, offset)
         /\ Called("set_bytes", n, offset, <<value>>)
    /\ UNCHANGED <<regvars, size_ret, gamevars>>

clear ==
    /\ CanCall
    /\ \E n \in Lengths, offset \in FillOffsets :
         /\ clear_body(n, offset)
         /\ Called("clear", n, offset, <<0>>)
    /\ UNCHANGED <<regvars, size_ret, gamevars>>

\* bn::sram::size(): no check, no device access
size_call ==
    /\ CanCall
    /\ size_ret' = size
    /\ raw' = NoRaw
    /\ UNCHANGED <<sram, out, pc>>
    /\ Called("size", 0, 0, <<>>)
    /\ UNCHANGED <<regvars, gamevars>>

(***************************************************************************)
(* main: the sprites and variables as created before the game loop.        *)
(***************************************************************************)
GameStart ==
    /\ left_y = 0
    /\ right_y = 0
    /\ enemy_going_up = FALSE
    /\ ball_x = 0
    /\ ball_y = 0
    /\ delta_x = 0
    /\ delta_y = 0
    /\ score = 0
    /\ frames = 0
    /\ idle = 0

Init ==
    /\ pc = "boot"
    /\ cfg \in LegalWaitStates
    /\ REG_WAITCNT = 0
    /\ reg_trace = <<>>
    /\ token = ""
    /\ sram = EmptyMem
    /\ out = <<>>
    /\ raw = NoRaw
    /\ last = NoCall
    /\ prev = NoCall
    /\ calls = 0
    /\ size_ret = -1
    /\ GameStart

Next == main_init \/ read \/ read_offset \/ write \/ write_offset \/ size_call

Spec == Init /\ [][Next]_vars

\* the fill operations and the reads that follow them
NextFill == main_init \/ set_bytes \/ clear \/ read \/ read_offset

SpecFill == Init /\ [][NextFill]_vars

\* every accessor operation
NextAccessor ==
    \/ main_init
    \/ read \/ read_offset \/ write \/ write_offset
    \/ set_bytes \/ clear
    \/ size_call

\* the build with the default wait state
InitAccessor ==
    /\ pc = "boot"
    /\ cfg = BN_SRAM_WAIT_STATE_8
    /\ REG_WAITCNT = 0
    /\ reg_trace = <<>>
    /\ token = ""
    /\ sram = EmptyMem
    /\ out = <<>>
    /\ raw = NoRaw
    /\ last = NoCall
    /\ prev = NoCall
    /\ calls = 0
    /\ size_ret = -1
    /\ GameStart

SpecAccessor == InitAccessor /\ [][NextAccessor]_vars

(***************************************************************************)
(* The configurator alone: init() on any prior content of the register.    *)
(***************************************************************************)
InitConfigurator ==
    /\ pc = "boot"
    /\ cfg \in LegalWaitStates
    /\ REG_WAITCNT \in 0..MaxPrior
    /\ reg_trace = <<>>
    /\ token = ""
    /\ sram = EmptyMem
    /\ out = <<>>
    /\ raw = NoRaw
    /\ last = NoCall
    /\ prev = NoCall
    /\ calls = 0
    /\ size_ret = -1
    /\ GameStart

init_again ==
    /\ Len(reg_trace) < MaxInits
    /\ init
    /\ UNCHANGED <<pc, memvars, gamevars>>

NextConfigurator == init_again

SpecConfigurator == InitConfigurator /\ [][NextConfigurator]_vars

(***************************************************************************)
(* main: one iteration of the game loop.                                   *)
(***************************************************************************)
Abs(v) == IF v < 0 THEN -v ELSE v

\* the player's paddle: up, else down, while there is room
PlayerPaddle(y, up, down) ==
    IF up /\ y > -PADDLE_MAX THEN y - 1
    ELSE IF down /\ y < PADDLE_MAX THEN y + 1
    ELSE y

\* an enemy paddle that still moves when it stands on the limit
EnemyPaddle_overshoot(y, going_up) ==
    IF going_up
    THEN IF y >= -PADDLE_MAX THEN [y |-> y - 1, up |-> TRUE] ELSE [y |-> y, up |-> FALSE]
    ELSE IF y <= PADDLE_MAX THEN [y |-> y + 1, up |-> FALSE] ELSE [y |-> y, up |-> TRUE]

\* the enemy's paddle: moves while there is room, else turns round
EnemyPaddle(y, going_up) ==
    IF going_up
    THEN IF y > -PADDLE_MAX THEN [y |-> y - 1, up |-> TRUE] ELSE [y |-> y, up |-> FALSE]
    ELSE IF y < PADDLE_MAX THEN [y |-> y + 1, up |-> FALSE] ELSE [y |-> y, up |-> TRUE]

\* directions taken from the remainders as they are, 0 to 4
RECURSIVE ChooseDirection_unshifted(_, _, _)
ChooseDirection_unshifted(dx, dy, draws) ==
    IF (dx = 0 \/ dy = 0) /\ draws # <<>>
    THEN ChooseDirection_unshifted(Head(draws)[1] % RANDOM_MOD,
                                   Head(draws)[2] % RANDOM_MOD,
                                   Tail(draws))
    ELSE [dx |-> dx, dy |-> dy]

\* while (delta_x == 0 || delta_y == 0): two more random numbers
RECURSIVE ChooseDirection(_, _, _)
ChooseDirection(dx, dy, draws) ==
    IF (dx = 0 \/ dy = 0) /\ draws # <<>>
    THEN ChooseDirection((Head(draws)[1] % RANDOM_MOD) - RANDOM_SHIFT,
                         (Head(draws)[2] % RANDOM_MOD) - RANDOM_SHIFT,
                         Tail(draws))
    ELSE [dx |-> dx, dy |-> dy]

\* a launch that does not look at the ball's speed
relaunch(a, dx, dy, draws) ==
    IF a THEN ChooseDirection(0, 0, draws)
    ELSE [dx |-> dx, dy |-> dy]

\* A pressed with the ball still: a new direction
Launch(a, dx, dy, draws) ==
    IF a /\ dx = 0 /\ dy = 0 THEN ChooseDirection(dx, dy, draws)
    ELSE [dx |-> dx, dy |-> dy]

\* paddles that also reach a ball exactly PADDLE_REACH away
SideEdges_wide(b, ly, ry) ==
    IF b.x < -PADDLE_LINE
    THEN IF Abs(b.y - ly) <= PADDLE_REACH
         THEN [b EXCEPT !.dx = b.dx * (-1)]
         ELSE [x |-> 0, y |-> 0, dx |-> 0, dy |-> 0, score |-> b.score - 1]
    ELSE IF b.x > PADDLE_LINE
    THEN IF Abs(b.y - ry) <= PADDLE_REACH
         THEN [b EXCEPT !.dx = b.dx * (-1)]
         ELSE [x |-> 0, y |-> 0, dx |-> 0, dy |-> 0, score |-> b.score + 1]
    ELSE b

\* the ball past a paddle line: bounce when the paddle is there, else the
\* score changes and the ball goes back to the centre
SideEdges(b, ly, ry) ==
    IF b.x < -PADDLE_LINE
    THEN IF Abs(b.y - ly) < PADDLE_REACH
         THEN [b EXCEPT !.dx = b.dx * (-1)]
         ELSE [x |-> 0, y |-> 0, dx |-> 0, dy |-> 0, score |-> b.score - 1]
    ELSE IF b.x > PADDLE_LINE
    THEN IF Abs(b.y - ry) < PADDLE_REACH
         THEN [b EXCEPT !.dx = b.dx * (-1)]
         ELSE [x |-> 0, y |-> 0, dx |-> 0, dy |-> 0, score |-> b.score + 1]
    ELSE b

\* a screen with no bottom wall
TopBottom_top_only(b) ==
    IF b.y < -WALL THEN [b EXCEPT !.dy = b.dy * (-1)]
    ELSE b

\* the ball past the top or the bottom of the screen
TopBottom(b) ==
    IF b.y < -WALL THEN [b EXCEPT !.dy = b.dy * (-1)]
    ELSE IF b.y > WALL THEN [b EXCEPT !.dy = b.dy * (-1)]
    ELSE b

\* the loop body, from the state and the iteration's keys and random numbers
GameStep(up, down, a, draws) ==
    LET ly == PlayerPaddle(left_y, up, down)
        en == EnemyPaddle(right_y, enemy_going_up)
        d  == Launch(a, delta_x, delta_y, draws)
        mv == [x |-> ball_x + d.dx, y |-> ball_y + d.dy,
               dx |-> d.dx, dy |-> d.dy, score |-> score]
        b  == TopBottom(SideEdges(mv, ly, en.y))
    IN  [left_y |-> ly, right_y |-> en.y, enemy_going_up |-> en.up,
         ball_x |-> b.x, ball_y |-> b.y, delta_x |-> b.dx, delta_y |-> b.dy,
         score |-> b.score]

frame(up, down, a, draws) ==
    /\ pc = "running"
    /\ LET n == GameStep(up, down, a, draws)
       IN  /\ left_y' = n.left_y
           /\ right_y' = n.right_y
           /\ enemy_going_up' = n.enemy_going_up
           /\ ball_x' = n.ball_x
           /\ ball_y' = n.ball_y
           /\ delta_x' = n.delta_x
           /\ delta_y' = n.delta_y
           /\ score' = n.score
           /\ idle' = IF delta_x = 0 /\ delta_y = 0 /\ n.delta_x = 0 /\ n.delta_y = 0
                      THEN idle + 1 ELSE 0
    /\ frames' = frames + 1
    /\ UNCHANGED <<pc, regvars, memvars>>

\* random.get_int() twice per turn of the while loop: one turn, or a first
\* turn that leaves a delta at 0 and a second one
Rand == 0..MaxRandom
Draw == Rand \X Rand
NoDraws == <<>>
\* first turns that leave delta_x, delta_y or both at 0
Rejected == {0, RANDOM_SHIFT} \X {0, RANDOM_SHIFT} \ {<<0, 0>>}
LoopEnds(draws) ==
    LET d == ChooseDirection(0, 0, draws)
    IN  d.dx # 0 /\ d.dy # 0
Draws ==
    {draws \in {<<p>> : p \in Draw} \cup {<<q, p>> : q \in Rejected, p \in Draw} :
        LoopEnds(draws)}

\* an iteration with the ball moving, or resting with A not pressed
play ==
    /\ frames < MaxFrames
    /\ IF delta_x = 0 /\ delta_y = 0 THEN idle < MaxIdle ELSE TRUE
    /\ \E up \in BOOLEAN, down \in BOOLEAN :
         \E a \in IF delta_x = 0 /\ delta_y = 0 THEN {FALSE} ELSE BOOLEAN :
            frame(up, down, a, NoDraws)

\* an iteration in which A is pressed with the ball at rest
launch ==
    /\ frames < MaxFrames
    /\ delta_x = 0 /\ delta_y = 0
    /\ \E up \in BOOLEAN, down \in BOOLEAN, draws \in Draws :
         frame(up, down, TRUE, draws)

\* the build with the default wait state
InitGame ==
    /\ pc = "boot"
    /\ cfg = BN_SRAM_WAIT_STATE_8
    /\ REG_WAITCNT = 0
    /\ reg_trace = <<>>
    /\ token = ""
    /\ sram = EmptyMem
    /\ out = <<>>
    /\ raw = NoRaw
    /\ last = NoCall
    /\ prev = NoCall
    /\ calls = 0
    /\ size_ret = -1
    /\ GameStart

NextGame == main_init \/ play \/ launch

SpecGame == InitGame /\ [][NextGame]_vars

\* the paddles alone: the ball is never launched
paddles ==
    /\ frames < MaxPaddleFrames
    /\ \E up \in BOOLEAN, down \in BOOLEAN : frame(up, down, FALSE, NoDraws)

NextPaddles == main_init \/ paddles

SpecPaddles == InitGame /\ [][NextPaddles]_vars

(***************************************************************************)
(* Properties.                                                             *)
(***************************************************************************)
IsRead(c) == c.op \in {"read", "read_offset"}
IsWrite(c) == c.op \in {"write", "write_offset"}
IsFill(c) == c.op \in {"set_bytes", "clear"}
\* the byte range of call c lies inside the byte range of call d
Inside(c, d) == c.offset >= d.offset /\ c.offset - d.offset <= d.bytes - c.bytes
\* the device bytes [offset, offset + n)
DeviceBytes(n, offset) == [i \in 1..n |-> Peek(sram, offset + i - 1)]
\* the whole range of the last call was transferred
WholeRange ==
    CASE IsWrite(last) -> DeviceBytes(last.bytes, last.offset) = last.value
      [] IsRead(last) -> out = DeviceBytes(last.bytes, last.offset)
      [] IsFill(last) ->
            \A i \in 1..last.bytes : Peek(sram, last.offset + i - 1) = last.value[1]
      [] OTHER -> TRUE

\* C1: every unsafe_read / unsafe_write invocation made by read, read_offset,
\* write or write_offset has 0 <= offset and offset + size <= total size: the
\* raw primitives are never invoked with a byte range that leaves the device.
C1_RawInDevice ==
    raw.kind \in {"unsafe_read", "unsafe_write"} => InDevice(raw.bytes, raw.offset)

\* C2: every accessor call is all-or-nothing: a call whose (offset, length)
\* violates the bound ends halted with the device contents unchanged, a call
\* whose (offset, length) is in range transfers the whole range.
C2_AllOrNothing ==
    [][calls' = calls + 1 =>
         IF InDevice(last'.bytes, last'.offset)
         THEN pc' = "running" /\ WholeRange'
         ELSE pc' = "halted" /\ sram' = sram]_vars

\* C3: round trip: write_offset(value, offset) with the range in the device,
\* immediately followed by read_offset(out, offset) of the same type, leaves
\* out byte-identical to value (write and read being the offset 0 case).
C3_RoundTrip ==
    (/\ IsWrite(prev) /\ IsRead(last)
     /\ InDevice(prev.bytes, prev.offset)
     /\ last.offset = prev.offset /\ last.bytes = prev.bytes)
    => (pc = "running" /\ out = prev.value)

C3_Witness ==
    /\ prev.op = "write_offset" /\ last.op = "read_offset"
    /\ prev.offset = 5000 /\ last.offset = 5000
    /\ prev.bytes = 4 /\ last.bytes = 4
    /\ prev.value = ValueOf(1, 4)
    /\ out = ValueOf(1, 4)

\* C4: read_offset and write_offset reject every offset with
\* offset + sizeof(Type) > total size over the whole int range: the call
\* halts and the raw primitive is not invoked.
C4_RejectsOutOfRange ==
    (last.op \in {"read_offset", "write_offset"} /\ last.offset > size - last.bytes)
    => (pc = "halted" /\ raw = NoRaw)

\* C5: init() makes one write to the wait-control register, after which the
\* SRAM wait-state field equals the configured wait state whatever the
\* register held before, and returns the identification token.
C5_InitSetsField ==
    \A i \in 1..Len(reg_trace) :
        /\ WaitField(reg_trace[i].reg) = cfg
        /\ reg_trace[i].ret = save_type

\* C6: set_bytes(v, n, offset) with the range in the device, followed by a
\* read of [offset, offset + n) or of any part of it, returns only bytes
\* equal to v.
C6_SetBytesThenRead ==
    (/\ prev.op = "set_bytes" /\ IsRead(last)
     /\ InDevice(prev.bytes, prev.offset)
     /\ Inside(last, prev))
    => (/\ pc = "running"
        /\ Len(out) = last.bytes
        /\ \A i \in 1..Len(out) : out[i] = prev.value[1])

C6_Witness ==
    /\ prev.op = "set_bytes" /\ prev.bytes = 4 /\ prev.offset = size - 4
    /\ prev.value = <<1>>
    /\ last.op = "read_offset" /\ last.bytes = 4 /\ last.offset = size - 4
    /\ out = <<1, 1, 1, 1>>

\* C7: clear(n, offset) with the range in the device, followed by a read of
\* any sub-range of [offset, offset + n), returns only zero bytes.
C7_ClearThenRead ==
    (/\ prev.op = "clear" /\ IsRead(last)
     /\ InDevice(prev.bytes, prev.offset)
     /\ Inside(last, prev))
    => (/\ pc = "running"
        /\ Len(out) = last.bytes
        /\ \A i \in 1..Len(out) : out[i] = 0)

C7_Witness ==
    /\ prev.op = "clear" /\ prev.bytes = 3 /\ prev.offset = 5003
    /\ last.op = "read_offset" /\ last.bytes = 1 /\ last.offset = 5004
    /\ out = <<0>>

\* C8: read(out) does what read_offset(out, 0) does and write(value) what
\* write_offset(value, 0) does, from every state: the same raw transfer, no
\* bounds failure, the same device contents and the same output.
C8_OffsetZero ==
    [][calls' = calls + 1 =>
         /\ last'.op = "read" =>
              /\ pc' = "running"
              /\ \A ok \in Asserts(last'.bytes, 0) :
                    read_offset_body(last'.bytes, 0, ok, 0)
         /\ (last'.op = "read_offset" /\ last'.offset = 0) =>
              read_body(last'.bytes, 0)
         /\ last'.op = "write" =>
              /\ pc' = "running"
              /\ \A ok \in Asserts(last'.bytes, 0) :
                    write_offset_body(last'.bytes, last'.value, 0, ok)
         /\ (last'.op = "write_offset" /\ last'.offset = 0) =>
              write_body(last'.bytes, last'.value)]_vars

C8_Witness ==
    /\ prev.op = "write" /\ prev.bytes = 4
    /\ last.op = "read" /\ last.bytes = 4
    /\ raw = [kind |-> "unsafe_read", bytes |-> 4, offset |-> 0]
    /\ out = prev.value

C10_InitIdempotent ==
    \A i \in 2..Len(reg_trace) : reg_trace[i] = reg_trace[1]

C10_Witness ==
    /\ Len(reg_trace) = 2
    /\ REG_WAITCNT = reg_trace[1].reg
    /\ WaitField(REG_WAITCNT) # cfg

\* C11: no accessor operation, successful or halted on a bounds failure,
\* changes the wait-control register: after init() the register stays as
\* init() wrote it across any sequence of accessor calls.
C11_TimingUntouched ==
    calls > 0 => (Len(reg_trace) = 1 /\ REG_WAITCNT = reg_trace[1].reg)

C11_Witness ==
    /\ calls = 2 /\ pc = "halted"
    /\ prev.op = "write_offset" /\ last.op = "set_bytes"
    /\ REG_WAITCNT = BN_SRAM_WAIT_STATE_8

\* C12: size() returns the configured device size in every reachable state,
\* before and after init, write, clear and set_bytes calls, and never fails.
C12_SizeConstant ==
    /\ size_ret \in {-1, hw_sram_size}
    /\ last.op = "size" => (size_ret = hw_sram_size /\ pc = "running")

C12_Witness ==
    /\ prev.op = "set_bytes" /\ prev.bytes > 0 /\ InDevice(prev.bytes, prev.offset)
    /\ last.op = "size"
    /\ size_ret = 32768

\* C13: a successful write_offset(value, offset) changes only the device
\* bytes in [offset, offset + sizeof(Type)) (write: [0, sizeof(Type))), and
\* read and read_offset, successful or not, change no device byte.
C13_WriteFrame ==
    [][calls' = calls + 1 =>
         /\ (IsWrite(last') /\ pc' = "running") =>
              \A a \in DOMAIN sram \cup DOMAIN sram' :
                 (a < last'.offset \/ a - last'.offset >= last'.bytes)
                    => Peek(sram', a) = Peek(sram, a)
         /\ IsRead(last') => sram' = sram]_vars

C13_Witness ==
    /\ prev.op = "write_offset" /\ prev.offset = 5000 /\ prev.bytes = 4
    /\ last.op = "write_offset" /\ last.offset = 5004 /\ last.bytes = 1
    /\ pc = "running"
    /\ DeviceBytes(4, 5000) = prev.value
    /\ Peek(sram, 5004) = last.value[1]

\* C14: the ball's speed is set only by A pressed with the ball still, and
\* that launch leaves delta_x and delta_y both in {-2, -1, 1, 2}; at the end
\* of every frame delta_x = 0 exactly when delta_y = 0; with the ball moving
\* a frame only flips signs or, on a miss, stops the ball, and A pressed
\* changes neither delta.
C14_LaunchOnly ==
    /\ [](/\ (delta_x = 0) <=> (delta_y = 0)
          /\ IF delta_x = 0 /\ delta_y = 0
             THEN /\ \A up \in BOOLEAN, down \in BOOLEAN :
                       LET n == GameStep(up, down, FALSE, NoDraws)
                       IN  n.delta_x = 0 /\ n.delta_y = 0
                  /\ \A draws \in Draws :
                       LET d == Launch(TRUE, delta_x, delta_y, draws)
                       IN  d.dx \in {-2, -1, 1, 2} /\ d.dy \in {-2, -1, 1, 2}
             ELSE \A up \in BOOLEAN, down \in BOOLEAN :
                       GameStep(up, down, TRUE, NoDraws)
                           = GameStep(up, down, FALSE, NoDraws))
    /\ [][frames' = frames + 1 =>
            IF delta_x = 0 /\ delta_y = 0
            THEN \/ delta_x' = 0 /\ delta_y' = 0
                 \/ delta_x' \in {-2, -1, 1, 2} /\ delta_y' \in {-2, -1, 1, 2}
            ELSE \/ Abs(delta_x') = Abs(delta_x) /\ Abs(delta_y') = Abs(delta_y)
                 \/ delta_x' = 0 /\ delta_y' = 0 /\ score' # score
       ]_vars

\* launched after one frame at rest, with a first turn of the loop thrown away
\* or not: the ball has made its first move
C14_Witness ==
    /\ frames = 2 /\ idle = 0
    /\ delta_x = -2 /\ delta_y = 1
    /\ ball_x = -2 /\ ball_y = 1
    /\ score = 0

\* C15: both paddles stay within -48..48; in a frame each paddle moves by at
\* most one unit, the player's paddle with up and down both held does what
\* up alone does (what down alone does when it stands at -48), and the enemy's paddle turns round, without moving, exactly in the frames
\* that start with it at the limit it was heading for, and otherwise moves
\* one unit in its direction.
C15_PaddlesInField ==
    /\ [](/\ left_y \in -48..48
          /\ right_y \in -48..48
          /\ PlayerPaddle(left_y, TRUE, TRUE)
                = IF left_y > -48 THEN PlayerPaddle(left_y, TRUE, FALSE)
                  ELSE PlayerPaddle(left_y, FALSE, TRUE)
          /\ Abs(PlayerPaddle(left_y, TRUE, TRUE) - left_y) <= 1)
    /\ [][frames' = frames + 1 =>
            /\ Abs(left_y' - left_y) <= 1
            /\ Abs(right_y' - right_y) <= 1
            /\ (enemy_going_up' # enemy_going_up)
                  <=> (right_y = IF enemy_going_up THEN -48 ELSE 48)
            /\ right_y' = IF enemy_going_up' # enemy_going_up THEN right_y
                          ELSE IF enemy_going_up THEN right_y - 1 ELSE right_y + 1
       ]_vars

\* the enemy's paddle has been down to 48, up to -48 and has just turned round
\* there, with the player's paddle held at the top
C15_Witness ==
    /\ right_y = -48 /\ ~enemy_going_up
    /\ left_y = -48
    /\ frames = 146

\* C16: in a frame whose ball move ends at x < -100 with the ball 32 or more
\* away from the left paddle the score goes down by 1, at x > 100 with the
\* ball 32 or more away from the right paddle it goes up by 1, and in every
\* other frame it stays; a frame that changes the score leaves the ball at
\* (0, 0) with delta_x = delta_y = 0.  The paddles are the ones already moved
\* in that frame; a ball at rest stays at the centre or is launched from it.
C16_ScoreOnMiss ==
    [][frames' = frames + 1 =>
         LET moving == delta_x # 0 \/ delta_y # 0
             mx == ball_x + delta_x
             my == ball_y + delta_y
             left_miss  == moving /\ mx < -100 /\ Abs(my - left_y') >= 32
             right_miss == moving /\ mx > 100 /\ Abs(my - right_y') >= 32
         IN  /\ score' = IF left_miss THEN score - 1
                         ELSE IF right_miss THEN score + 1
                         ELSE score
             /\ score' # score =>
                  ball_x' = 0 /\ ball_y' = 0 /\ delta_x' = 0 /\ delta_y' = 0
             /\ ~moving => ball_x = 0 /\ ball_y = 0
    ]_vars

\* the ball, launched in the first frame, has passed the left paddle
C16_Witness ==
    /\ score = -1 /\ frames = 51
    /\ ball_x = 0 /\ ball_y = 0 /\ delta_x = 0 /\ delta_y = 0
    /\ left_y = 0

\* C17: at the end of every frame a ball at x < -100 has delta_x > 0, at
\* x > 100 delta_x < 0, at y < -64 delta_y > 0 and at y > 64 delta_y < 0;
\* and a ball beyond an edge at the end of a frame is not beyond that edge at
\* the end of the next one, so the sign is never flipped at the same edge in
\* two frames running.
C17_BounceInward ==
    /\ [](/\ ball_x < -100 => delta_x > 0
          /\ ball_x > 100 => delta_x < 0
          /\ ball_y < -64 => delta_y > 0
          /\ ball_y > 64 => delta_y < 0)
    /\ [][frames' = frames + 1 =>
            /\ ball_x < -100 => ball_x' >= -100
            /\ ball_x > 100 => ball_x' <= 100
            /\ ball_y < -64 => ball_y' >= -64
            /\ ball_y > 64 => ball_y' <= 64
       ]_vars

\* the ball has bounced off the bottom of the screen and now off the left
\* paddle
C17_Witness ==
    /\ frames = 51
    /\ ball_x = -102 /\ delta_x = 2
    /\ ball_y = 30 /\ delta_y = -2
    /\ score = 0

\* C18: at the end of every frame the ball is at -102 <= x <= 102 and
\* -66 <= y <= 66, whatever the keys and the random numbers were.
C18_BallBounded ==
    /\ ball_x >= -102 /\ ball_x <= 102
    /\ ball_y >= -66 /\ ball_y <= 66

\* the fastest ball at the bottom of the screen, and at the right paddle
C18_Witness ==
    \/ ball_y = 66 /\ delta_y = -2 /\ frames = 34
    \/ ball_x = 102 /\ delta_x = -2 /\ ball_y = 30 /\ frames = 52

====
